---- MODULE Spec2Model ----
(***************************************************************************)
(* Model of src/config/parser.py: the ConfigParser class (construction,    *)
(* from_args, init_obj, init_ftn, item access, get_logger) and the helper  *)
(* functions _update_config, _set_by_path, _get_by_path, _get_opt_name.    *)
(*                                                                         *)
(* A configuration document (a nested dict) is a function from paths       *)
(* (non-empty sequences of keys) to strings.  A path that holds a nested   *)
(* dict maps to MAP; every other value is a scalar string.  The root is    *)
(* the dict itself.  A Python string that the code takes apart (a          *)
(* "a;b;c" keychain, a "--batch-size" flag) is a sequence of tokens.       *)
(***************************************************************************)
EXTENDS Integers, Sequences, FiniteSets, TLC

VARIABLES
    fsDirs,      \* the directories that exist on disk (paths)
    fsFiles,     \* the files on disk: path -> text (sequence of tokens)
    clock,       \* datetime.datetime.now(), in seconds
    ctx,         \* the ConfigParser object the caller holds
    runs,        \* every construction that completed, in order
    last,        \* the call that ran last: its arguments and its outcome
    loggers,     \* logging's registry: logger name -> level
    calls,       \* how many times an attribute of the target module was called
    partials,    \* the functools.partial objects init_ftn has returned
    cudaEnv,     \* os.environ["CUDA_VISIBLE_DEVICES"]
    logSetup,    \* the arguments of every torchseg.logger.LoggerSetup call
    mBase, mMod, mOut, mPc   \* one run of _update_config on its own

vars == <<fsDirs, fsFiles, clock, ctx, runs, last, loggers, calls, partials,
          cudaEnv, logSetup, mBase, mMod, mOut, mPc>>

sysVars == <<fsDirs, fsFiles, clock, ctx, runs, last, loggers, calls,
             partials, cudaEnv, logSetup>>

mergeVars == <<mBase, mMod, mOut, mPc>>

---------------------------------------------------------------------------
(* Bounds *)

MaxMods == 2        \* entries of a modification dict given to _update_config
MaxRuns == 2        \* constructions attempted in one behaviour
MaxCalls == 2       \* calls of the target module's attributes in one behaviour
MaxPartials == 1    \* functions init_ftn returns in one behaviour
MaxClock == 1       \* seconds the clock advances

---------------------------------------------------------------------------
(* Python values *)

MAP == "{}"             \* the value at a path that holds a nested dict
NoneVal == "<None>"     \* Python's None where a scalar is expected
SEP == ";"              \* the separator _set_by_path splits on

EmptyTree == <<>>

\* the element of a one-element set; TheOne({F(x) : x \in {e}}) is F(e) with e
\* evaluated once
TheOne(S) == CHOOSE x \in S : TRUE

\* the tree holding the given <<path, value>> pairs
MkTree(pairs) ==
    [p \in {x[1] : x \in pairs} |-> (CHOOSE x \in pairs : x[1] = p)[2]]

IsPrefix(p, q) == Len(p) <= Len(q) /\ SubSeq(q, 1, Len(p)) = p

\* the node at path `at` is a dict (the root always is)
IsMapAt(tree, at) == at = <<>> \/ (at \in DOMAIN tree /\ tree[at] = MAP)

\* the keys of the dict at path `at`
KeysAt(tree, at) ==
    {p[Len(at) + 1] : p \in {q \in DOMAIN tree : Len(q) = Len(at) + 1 /\ IsPrefix(at, q)}}

\* the dict at path `at`, as a tree of its own
Subtree(tree, at) ==
    LET below == {q \in DOMAIN tree : IsPrefix(at, q) /\ q # at}
    IN  [r \in {SubSeq(q, Len(at) + 1, Len(q)) : q \in below} |-> tree[at \o r]]

---------------------------------------------------------------------------
(* _get_by_path, _set_by_path, _update_config *)

\* operator.getitem(node, key), the node named by its path in the tree
GetItemAt(tree, at, key) ==
    IF ~IsMapAt(tree, at)
    THEN [err |-> "TypeError", at |-> at]
    ELSE IF Append(at, key) \notin DOMAIN tree
         THEN [err |-> "KeyError", at |-> at]
         ELSE [err |-> "none", at |-> Append(at, key)]

RECURSIVE Reduce(_, _, _)
Reduce(tree, keys, at) ==
    IF keys = <<>>
    THEN [err |-> "none", at |-> at]
    ELSE TheOne({IF r.err # "none" THEN r ELSE Reduce(tree, Tail(keys), r.at) :
                    r \in {GetItemAt(tree, at, Head(keys))}})

\* functools.reduce(operator.getitem, keys, tree)
GetByPath(tree, keys) == Reduce(tree, keys, <<>>)

\* str.split(';') on a token string: the pieces between separators; a piece
\* with no token is the empty string
RECURSIVE SplitFrom(_, _, _)
SplitFrom(s, cur, acc) ==
    IF s = <<>>
    THEN Append(acc, cur)
    ELSE IF Head(s) = SEP
         THEN SplitFrom(Tail(s), "", Append(acc, cur))
         ELSE SplitFrom(Tail(s), Head(s), acc)

Split(s) == SplitFrom(s, "", <<>>)

\* a merge that replaces the dict at `at` by {key: value}
SetItemAtAlone(tree, at, key, value) ==
    LET target == Append(at, key)
        keep == {q \in DOMAIN tree : ~IsPrefix(at, q) \/ q = at}
    IN  [q \in keep \cup {target} |-> IF q = target THEN value ELSE tree[q]]

\* node[key] = value on the dict at path `at`
SetItemAt(tree, at, key, value) ==
    LET target == Append(at, key)
        keep == {q \in DOMAIN tree : ~IsPrefix(target, q)}
    IN  [q \in keep \cup {target} |-> IF q = target THEN value ELSE tree[q]]

\* _get_by_path(tree, keys[:-1])[keys[-1]] = value
SetAtParent(tree, ks, parent, value) ==
    IF parent.err # "none"
    THEN [err |-> parent.err, tree |-> tree]
    ELSE IF ~IsMapAt(tree, parent.at)
         THEN [err |-> "TypeError", tree |-> tree]
         ELSE [err |-> "none", tree |-> SetItemAt(tree, parent.at, ks[Len(ks)], value)]

\* a _set_by_path that creates the dicts missing on the way
SetByPathCreating(tree, keys, value) ==
    LET ks == Split(keys)
        made == {SubSeq(ks, 1, n) : n \in 1..(Len(ks) - 1)}
        filled == [q \in DOMAIN tree \cup made |-> IF q \in DOMAIN tree THEN tree[q] ELSE MAP]
    IN  SetAtParent(filled, ks, GetByPath(filled, SubSeq(ks, 1, Len(ks) - 1)), value)

SetByPath(tree, keys, value) ==
    TheOne({SetAtParent(tree, ks, GetByPath(tree, SubSeq(ks, 1, Len(ks) - 1)), value) :
               ks \in {Split(keys)}})

\* the loop of _update_config over modification.items(), in dict order; the
\* tree is changed in place, so what was set before a failure stays set
\* a loop that does not test `v is not None`
RECURSIVE UpdateItemsNoSkip(_, _)
UpdateItemsNoSkip(tree, items) ==
    IF items = <<>>
    THEN [err |-> "none", tree |-> tree]
    ELSE TheOne({IF r.err # "none" THEN r ELSE UpdateItemsNoSkip(r.tree, Tail(items)) :
                    r \in {SetByPath(tree, Head(items).k, Head(items).v)}})

RECURSIVE UpdateItems(_, _)
UpdateItems(tree, items) ==
    IF items = <<>>
    THEN [err |-> "none", tree |-> tree]
    ELSE LET e == Head(items)
         IN  IF e.v # NoneVal
             THEN TheOne({IF r.err # "none" THEN r ELSE UpdateItems(r.tree, Tail(items)) :
                             r \in {SetByPath(tree, e.k, e.v)}})
             ELSE UpdateItems(tree, Tail(items))

UpdateConfig(config, modification) ==
    IF modification.isNone
    THEN [err |-> "none", tree |-> config]
    ELSE UpdateItems(config, modification.items)

---------------------------------------------------------------------------
(* Inputs: documents and modification dicts *)

DocFull ==
    MkTree({ <<<<"name">>, "exp1">>,
             <<<<"machine">>, MAP>>,
             <<<<"machine", "args">>, MAP>>,
             <<<<"machine", "args", "save_dir">>, "/tmp/out">>,
             <<<<"logconf">>, "">>,
             <<<<"layer">>, MAP>>,
             <<<<"layer", "type">>, "Conv">>,
             <<<<"layer", "args">>, MAP>>,
             <<<<"layer", "args", "k">>, "3">> })

\* the document of the specification's end-to-end example
DocExample ==
    MkTree({ <<<<"name">>, "exp1">>,
             <<<<"machine">>, MAP>>,
             <<<<"machine", "args">>, MAP>>,
             <<<<"machine", "args", "save_dir">>, "/tmp/out">> })

DocOther ==
    MkTree({ <<<<"name">>, "exp2">>,
             <<<<"machine">>, MAP>>,
             <<<<"machine", "args">>, MAP>>,
             <<<<"machine", "args", "save_dir">>, "/tmp/out">>,
             <<<<"logconf">>, "log.json">>,
             <<<<"layer">>, MAP>>,
             <<<<"layer", "type">>, "Pool">>,
             <<<<"layer", "args">>, MAP>> })

BaseDocs == {DocFull, DocExample, DocOther}

ModValues == {NoneVal, "v1"}

ModPaths ==
    { <<"layer", SEP, "args", SEP, "k">>,
      <<"layer", SEP, "args", SEP, "new">>,
      <<"layer", SEP, "args">>,
      <<"layer", SEP, "nokey", SEP, "k">>,
      <<"name", SEP, "x">>,
      <<"name", SEP, "x", SEP, "y">>,
      <<"name">> }

ModEntries == [k : ModPaths, v : ModValues]

DistinctKeys(items) ==
    \A i, j \in 1..Len(items) : i # j => items[i].k # items[j].k

ItemSeqs(entries, n) ==
    UNION {{s \in [1..m -> entries] : DistinctKeys(s)} : m \in 0..n}

NoMod == [isNone |-> TRUE, items |-> <<>>]

Mods(entries, n) ==
    {NoMod} \cup {[isNone |-> FALSE, items |-> s] : s \in ItemSeqs(entries, n)}

---------------------------------------------------------------------------
(* _update_config run on its own *)

NoOut == [err |-> "none", tree |-> EmptyTree]

MergeInit ==
    /\ mBase \in BaseDocs
    /\ mMod \in Mods(ModEntries, MaxMods)
    /\ mOut = NoOut
    /\ mPc = "call"

RunUpdateConfig ==
    /\ mPc = "call"
    /\ mOut' = UpdateConfig(mBase, mMod)
    /\ mPc' = "done"
    /\ UNCHANGED <<mBase, mMod>>

---------------------------------------------------------------------------
(* The file system, the clock and the JSON files *)

Parent(p) == SubSeq(p, 1, Len(p) - 1)

Prefixes(p) == {SubSeq(p, 1, n) : n \in 1..Len(p)}

\* pathlib: path / segment; an empty segment adds nothing
JoinPath(p, seg) == IF seg = "" THEN p ELSE Append(p, seg)

\* a mkdir that always passes exist_ok=True
MkdirExistOk(dirs, files, p, exist_ok) ==
    IF p \in DOMAIN files
    THEN [err |-> "FileExistsError", dirs |-> dirs]
    ELSE IF \E q \in Prefixes(p) : q \in DOMAIN files
         THEN [err |-> "NotADirectoryError", dirs |-> dirs]
         ELSE [err |-> "none", dirs |-> dirs \cup Prefixes(p)]

\* pathlib.Path.mkdir(parents=True, exist_ok=exist_ok)
Mkdir(dirs, files, p, exist_ok) ==
    IF p \in DOMAIN files
    THEN [err |-> "FileExistsError", dirs |-> dirs]
    ELSE IF p \in dirs
         THEN IF exist_ok
              THEN [err |-> "none", dirs |-> dirs]
              ELSE [err |-> "FileExistsError", dirs |-> dirs]
         ELSE IF \E q \in Prefixes(p) : q \in DOMAIN files
              THEN [err |-> "NotADirectoryError", dirs |-> dirs]
              ELSE [err |-> "none", dirs |-> dirs \cup Prefixes(p)]

\* the stamps strftime('%d%m_%H%M%S') produces for consecutive seconds; the
\* format has no year, so the stamps come round again
Stamps == <<"0211_150000", "0211_150001", "0211_150002">>

Strftime(now) == Stamps[(now % Len(Stamps)) + 1]

\* the keys of the documents, in sorted order
KeyOrder ==
    <<"args", "k", "layer", "logconf", "machine", "name", "new", "nokey",
      "save_dir", "stride", "type", "x", "y">>

\* the text of a document: { key : value , key : { ... } }, keys sorted
RECURSIVE Dumps(_, _), Members(_, _, _, _)
Dumps(tree, at) ==
    <<"{">>
    \o TheOne({Members(tree, at, ks, 1) :
                  ks \in {SelectSeq(KeyOrder, LAMBDA k : Append(at, k) \in DOMAIN tree)}})
    \o <<"}">>

Members(tree, at, ks, i) ==
    IF i > Len(ks)
    THEN <<>>
    ELSE (IF i > 1 THEN <<",">> ELSE <<>>)
         \o <<ks[i], ":">>
         \o (IF tree[Append(at, ks[i])] = MAP
             THEN Dumps(tree, Append(at, ks[i]))
             ELSE <<tree[Append(at, ks[i])]>>)
         \o Members(tree, at, ks, i + 1)

\* one token of a text read: st holds the path of the dict being read, the
\* key read last and the <<path, value>> pairs read so far
ParseStep(toks, i, st) ==
    LET t == toks[i]
    IN  IF i = 1
        THEN st
        ELSE IF toks[i - 1] \in {"{", ","} /\ t # "}"
             THEN [st EXCEPT !.key = t]
             ELSE IF t \in {":", ","}
                  THEN st
                  ELSE IF t = "}"
                       THEN [st EXCEPT !.at = Parent(st.at)]
                       ELSE IF t = "{"
                            THEN [st EXCEPT !.at = Append(st.at, st.key),
                                            !.acc = @ \cup {<<Append(st.at, st.key), MAP>>}]
                            ELSE [st EXCEPT !.acc = @ \cup {<<Append(st.at, st.key), t>>}]

\* the document of a text
RECURSIVE Parse(_, _, _)
Parse(toks, i, st) ==
    IF i > Len(toks)
    THEN MkTree(st.acc)
    ELSE TheOne({Parse(toks, i + 1, n) : n \in {ParseStep(toks, i, st)}})

Loads(toks) == Parse(toks, 1, [at |-> <<>>, key |-> "", acc |-> {}])

\* torchseg.utils.write_json(content, fname)
WriteJson(dirs, files, content, fname) ==
    IF fname \in dirs
    THEN [err |-> "IsADirectoryError", files |-> files]
    ELSE IF Parent(fname) # <<>> /\ Parent(fname) \notin dirs
         THEN [err |-> "FileNotFoundError", files |-> files]
         ELSE [err |-> "none",
               files |-> [f \in DOMAIN files \cup {fname} |->
                            IF f = fname THEN Dumps(content, <<>>) ELSE files[f]]]

\* torchseg.utils.read_json(fname)
ReadJson(dirs, files, fname) ==
    IF fname \in DOMAIN files
    THEN [err |-> "none", tree |-> Loads(files[fname])]
    ELSE IF fname \in dirs
         THEN [err |-> "IsADirectoryError", tree |-> EmptyTree]
         ELSE [err |-> "FileNotFoundError", tree |-> EmptyTree]

---------------------------------------------------------------------------
(* ConfigParser.__init__ *)

SAVE_DIR_KEYS == <<"machine", "args", "save_dir">>

\* what a call of __init__ does, up to the point where it fails or returns:
\* the caller's document (changed in place), the directories, the files, the
\* LoggerSetup call made, and the object's attributes
InitFail(err, stage, tree, dirs, files) ==
    [err |-> err, stage |-> stage, tree |-> tree, dirs |-> dirs, files |-> files,
     run_id |-> "", save_dir |-> <<>>, log_dir |-> <<>>, setup |-> FALSE,
     logconf |-> ""]

\* lines 56-70: the directories, config.json and the logging setup
InitRun(cfg, rid, save_dir, log_dir, dirs, files) ==
    LET exist_ok == rid = ""
        m1 == Mkdir(dirs, files, save_dir, exist_ok)
        m2 == Mkdir(m1.dirs, files, log_dir, exist_ok)
        w == WriteJson(m2.dirs, files, cfg, Append(save_dir, "config.json"))
        lc == GetByPath(cfg, <<"logconf">>)
        done == [err |-> "none", stage |-> "done", tree |-> cfg, dirs |-> m2.dirs,
                 files |-> files, run_id |-> rid, save_dir |-> save_dir,
                 log_dir |-> log_dir, setup |-> FALSE, logconf |-> ""]
    IN  IF m1.err # "none"
        THEN [done EXCEPT !.err = m1.err, !.stage = "mkdir_save", !.dirs = dirs]
        ELSE IF m2.err # "none"
        THEN [done EXCEPT !.err = m2.err, !.stage = "mkdir_log", !.dirs = m1.dirs]
        ELSE IF w.err # "none"
        THEN [done EXCEPT !.err = w.err, !.stage = "write_json"]
        ELSE IF lc.err # "none"
        THEN [done EXCEPT !.err = lc.err, !.stage = "logconf", !.files = w.files]
        ELSE [done EXCEPT !.files = w.files, !.setup = TRUE, !.logconf = cfg[lc.at]]

\* lines 46-54: save_dir and log_dir of the merged document
InitDirs(cfg, run_id, dirs, files, now) ==
    LET sd == GetByPath(cfg, SAVE_DIR_KEYS)
        nm == GetByPath(cfg, <<"name">>)
        rid == IF run_id = NoneVal THEN Strftime(now) ELSE run_id
        base == <<cfg[sd.at]>>
        save_dir == JoinPath(JoinPath(JoinPath(base, "models"), cfg[nm.at]), rid)
        log_dir == JoinPath(JoinPath(JoinPath(base, "log"), cfg[nm.at]), rid)
    IN  IF sd.err # "none" THEN InitFail(sd.err, "save_dir", cfg, dirs, files)
        ELSE IF cfg[sd.at] = MAP THEN InitFail("TypeError", "save_dir", cfg, dirs, files)
        ELSE IF nm.err # "none" THEN InitFail(nm.err, "name", cfg, dirs, files)
        ELSE IF cfg[nm.at] = MAP THEN InitFail("TypeError", "name", cfg, dirs, files)
        ELSE TheOne({InitRun(cfg, rid, s, l, dirs, files) :
                        s \in {save_dir}, l \in {log_dir}})

ConfigParserInit(config, modification, run_id, dirs, files, now) ==
    TheOne({IF u.err # "none"
            THEN InitFail(u.err, "merge", u.tree, dirs, files)
            ELSE InitDirs(u.tree, run_id, dirs, files, now) :
               u \in {UpdateConfig(config, modification)}})

---------------------------------------------------------------------------
(* ConfigParser.from_args *)

DASH == "-"

StartsWithDashes(flg) == Len(flg) >= 2 /\ flg[1] = DASH /\ flg[2] = DASH

\* str.replace('--', ''): every pair of dashes, left to right, is removed
RECURSIVE DropDashPairs(_)
DropDashPairs(s) ==
    IF Len(s) >= 2 /\ s[1] = DASH /\ s[2] = DASH
    THEN DropDashPairs(SubSeq(s, 3, Len(s)))
    ELSE IF s = <<>> THEN <<>> ELSE <<Head(s)>> \o DropDashPairs(Tail(s))

\* str.replace('-', '_')
Underscored(s) == [i \in 1..Len(s) |-> IF s[i] = DASH THEN "_" ELSE s[i]]

\* str.lstrip('-')
RECURSIVE LStripDash(_)
LStripDash(s) == IF s # <<>> /\ Head(s) = DASH THEN LStripDash(Tail(s)) ELSE s

GetOptName(flags) ==
    LET long == {i \in 1..Len(flags) : StartsWithDashes(flags[i])}
        flg == IF long # {}
               THEN flags[CHOOSE i \in long : \A j \in long : i <= j]
               ELSE flags[1]
    IN  Underscored(DropDashPairs(flg))

\* the attribute argparse stores the option under: its first long flag, or
\* else its first flag, without the leading dashes and with '-' as '_'
ArgparseDest(flags) ==
    LET long == {i \in 1..Len(flags) : StartsWithDashes(flags[i])}
        flg == IF long # {}
               THEN flags[CHOOSE i \in long : \A j \in long : i <= j]
               ELSE flags[1]
    IN  Underscored(LStripDash(flg))

\* args.parse_args(): the namespace of the custom options, values[i] being
\* what the command line gave for options[i] (None when it gave nothing)
ParseArgs(options, values) ==
    [d \in {ArgparseDest(options[i].flags) : i \in 1..Len(options)} |->
        values[CHOOSE i \in 1..Len(options) : ArgparseDest(options[i].flags) = d]]

\* dict[key] = value on an insertion-ordered dict, kept as a list of items
DictSet(items, key, value) ==
    IF \E i \in 1..Len(items) : items[i].k = key
    THEN [i \in 1..Len(items) |->
            IF items[i].k = key THEN [k |-> key, v |-> value] ELSE items[i]]
    ELSE Append(items, [k |-> key, v |-> value])

\* the dict comprehension {opt.target: getattr(args, _get_opt_name(opt.flags))}
RECURSIVE Modification(_, _, _)
Modification(options, ns, acc) ==
    IF options = <<>>
    THEN [err |-> "none", items |-> acc]
    ELSE TheOne({IF nm \notin DOMAIN ns
                 THEN [err |-> "AttributeError", items |-> acc]
                 ELSE TheOne({Modification(Tail(options), ns, nxt) :
                                 nxt \in {DictSet(acc, Head(options).target, ns[nm])}}) :
                    nm \in {GetOptName(Head(options).flags)}})

\* an update in which the keys already there win
DictUpdateKeepOld(tree, other) ==
    LET keep == {q \in DOMAIN other : q[1] \notin KeysAt(tree, <<>>)}
    IN  [q \in keep \cup DOMAIN tree |-> IF q \in DOMAIN tree THEN tree[q] ELSE other[q]]

\* dict.update(other): every top-level key of other replaces the key's value
DictUpdate(tree, other) ==
    LET keep == {q \in DOMAIN tree : q[1] \notin KeysAt(other, <<>>)}
    IN  [q \in keep \cup DOMAIN other |-> IF q \in DOMAIN other THEN other[q] ELSE tree[q]]

ArgsFail(err, stage, reads) ==
    [err |-> err, stage |-> stage, base |-> EmptyTree, config |-> EmptyTree,
     resume |-> <<>>, mod |-> NoMod, reads |-> reads]

\* lines 104-115: the logconf key and the modification dict
ArgsConfig(cli, options, values, resume, base, reads) ==
    LET config == SetItemAt(base, <<>>, "logconf",
                            IF cli.logconf \notin {NoneVal, ""} THEN cli.logconf ELSE "")
        m == Modification(options, ParseArgs(options, values), <<>>)
    IN  IF m.err # "none"
        THEN [ArgsFail(m.err, "options", reads) EXCEPT !.base = base, !.config = config]
        ELSE [err |-> "none", stage |-> "cls", base |-> base, config |-> config,
              resume |-> resume, mod |-> [isNone |-> FALSE, items |-> m.items],
              reads |-> reads]

\* lines 98-102: the configuration read, and the -c file laid over it
ArgsRead(cli, options, values, resume, cfg_fname, dirs, files) ==
    LET overlay == cli.conf \notin {NoneVal, ""} /\ resume # <<>>
    IN  TheOne({
          IF first.err # "none"
          THEN ArgsFail(first.err, "read_json", {cfg_fname})
          ELSE IF ~overlay
          THEN ArgsConfig(cli, options, values, resume, first.tree, {cfg_fname})
          ELSE TheOne({
                 IF over.err # "none"
                 THEN ArgsFail(over.err, "read_conf", {cfg_fname, <<cli.conf>>})
                 ELSE TheOne({ArgsConfig(cli, options, values, resume, base,
                                         {cfg_fname, <<cli.conf>>}) :
                                 base \in {DictUpdate(first.tree, over.tree)}}) :
                    over \in {ReadJson(dirs, files, <<cli.conf>>)}}) :
             first \in {ReadJson(dirs, files, cfg_fname)}})

\* from_args up to the call of cls(config, resume, modification); `cli` holds
\* the parsed device, resume, conf and logconf
FromArgsResolve(cli, options, values, dirs, files) ==
    IF cli.resume # <<>>
    THEN ArgsRead(cli, options, values, cli.resume,
                  Append(Parent(cli.resume), "config.json"), dirs, files)
    ELSE IF cli.conf = NoneVal
         THEN ArgsFail("AssertionError", "assert_conf", {})
         ELSE ArgsRead(cli, options, values, <<>>, <<cli.conf>>, dirs, files)

---------------------------------------------------------------------------
(* init_obj, init_ftn, __getitem__, __str__, get_logger *)

ModuleAttrs == {"Conv", "Pool"}     \* the attributes of the module passed in

NoCall == [attr |-> "", args |-> <<>>, kwargs |-> EmptyTree]

InstFail(err, config) ==
    [err |-> err, attr |-> "", args |-> <<>>, kwargs |-> EmptyTree, config |-> config]

\* init_obj without the assertion on the keyword arguments
InstantiateNoAssert(config, name, args, kwargs) ==
    LET item == GetItemAt(config, <<>>, name)
        ty == GetItemAt(config, <<name>>, "type")
        ar == GetItemAt(config, <<name>>, "args")
        module_name == config[ty.at]
        module_args == Subtree(config, ar.at)
        merged == DictUpdate(module_args, kwargs)
    IN  IF item.err # "none" THEN InstFail(item.err, config)
        ELSE IF ty.err # "none" THEN InstFail(ty.err, config)
        ELSE IF ar.err # "none" THEN InstFail(ar.err, config)
        ELSE IF config[ar.at] \notin {MAP, ""} THEN InstFail("ValueError", config)
        ELSE IF module_name = MAP THEN InstFail("TypeError", config)
        ELSE IF module_name \notin ModuleAttrs THEN InstFail("AttributeError", config)
        ELSE [err |-> "none", attr |-> module_name, args |-> args,
              kwargs |-> merged, config |-> config]

\* init_obj that forgets module_args.update(kwargs)
InstantiateNoMerge(config, name, args, kwargs) ==
    LET item == GetItemAt(config, <<>>, name)
        ty == GetItemAt(config, <<name>>, "type")
        ar == GetItemAt(config, <<name>>, "args")
        module_name == config[ty.at]
        module_args == Subtree(config, ar.at)
        merged == module_args
    IN  IF item.err # "none" THEN InstFail(item.err, config)
        ELSE IF ty.err # "none" THEN InstFail(ty.err, config)
        ELSE IF ar.err # "none" THEN InstFail(ar.err, config)
        ELSE IF config[ar.at] \notin {MAP, ""} THEN InstFail("ValueError", config)
        ELSE IF \E k \in KeysAt(kwargs, <<>>) : k \in KeysAt(module_args, <<>>)
             THEN InstFail("AssertionError", config)
        ELSE IF module_name = MAP THEN InstFail("TypeError", config)
        ELSE IF module_name \notin ModuleAttrs THEN InstFail("AttributeError", config)
        ELSE [err |-> "none", attr |-> module_name, args |-> args,
              kwargs |-> merged, config |-> config]

\* init_obj that updates self[name]['args'] itself, not a copy of it
InstantiateNoCopy(config, name, args, kwargs) ==
    LET item == GetItemAt(config, <<>>, name)
        ty == GetItemAt(config, <<name>>, "type")
        ar == GetItemAt(config, <<name>>, "args")
        module_name == config[ty.at]
        module_args == Subtree(config, ar.at)
        merged == DictUpdate(module_args, kwargs)
    IN  IF item.err # "none" THEN InstFail(item.err, config)
        ELSE IF ty.err # "none" THEN InstFail(ty.err, config)
        ELSE IF ar.err # "none" THEN InstFail(ar.err, config)
        ELSE IF config[ar.at] \notin {MAP, ""} THEN InstFail("ValueError", config)
        ELSE IF \E k \in KeysAt(kwargs, <<>>) : k \in KeysAt(module_args, <<>>)
             THEN InstFail("AssertionError", config)
        ELSE IF module_name = MAP THEN InstFail("TypeError", config)
        ELSE IF module_name \notin ModuleAttrs THEN InstFail("AttributeError", config)
        ELSE [err |-> "none", attr |-> module_name, args |-> args,
              kwargs |-> merged,
              config |-> [q \in DOMAIN config \cup {ar.at \o r : r \in DOMAIN merged} |->
                            IF IsPrefix(ar.at, q) /\ q # ar.at
                            THEN merged[SubSeq(q, Len(ar.at) + 1, Len(q))]
                            ELSE config[q]]]

\* the body shared by init_obj and init_ftn, up to the attribute and the
\* arguments it is called (or bound) with; `config` is the document after it
Instantiate(config, name, args, kwargs) ==
    LET item == GetItemAt(config, <<>>, name)
        ty == GetItemAt(config, <<name>>, "type")
        ar == GetItemAt(config, <<name>>, "args")
        module_name == config[ty.at]
        module_args == Subtree(config, ar.at)
        merged == DictUpdate(module_args, kwargs)
    IN  IF item.err # "none" THEN InstFail(item.err, config)
        ELSE IF ty.err # "none" THEN InstFail(ty.err, config)
        ELSE IF ar.err # "none" THEN InstFail(ar.err, config)
        ELSE IF config[ar.at] \notin {MAP, ""} THEN InstFail("ValueError", config)
        ELSE IF \E k \in KeysAt(kwargs, <<>>) : k \in KeysAt(module_args, <<>>)
             THEN InstFail("AssertionError", config)
        ELSE IF module_name = MAP THEN InstFail("TypeError", config)
        ELSE IF module_name \notin ModuleAttrs THEN InstFail("AttributeError", config)
        ELSE [err |-> "none", attr |-> module_name, args |-> args,
              kwargs |-> merged, config |-> config]

\* functools.partial(func, *args, **kwargs)(*more, **morekw)
PartialCall(p, more, morekw) ==
    [attr |-> p.attr, args |-> p.args \o more, kwargs |-> DictUpdate(p.kwargs, morekw)]

\* self.log_levels
LogLevels == [v \in {0, 1, 2} |->
                IF v = 0 THEN "WARNING" ELSE IF v = 1 THEN "INFO" ELSE "DEBUG"]

\* a get_logger that falls back to DEBUG instead of asserting
GetLoggerNoAssert(levels, name, verbosity) ==
    [err |-> "none",
     levels |-> [levels EXCEPT ![name] = IF verbosity \in DOMAIN LogLevels
                                         THEN LogLevels[verbosity] ELSE "DEBUG"]]

\* get_logger: the registry after the call
GetLoggerResolve(levels, name, verbosity) ==
    IF verbosity \notin DOMAIN LogLevels
    THEN [err |-> "AssertionError", levels |-> levels]
    ELSE [err |-> "none", levels |-> [levels EXCEPT ![name] = LogLevels[verbosity]]]

---------------------------------------------------------------------------
(* The inputs the callers give *)

SysDocs == {DocFull, DocExample}

ModOf(items) == [isNone |-> FALSE, items |-> items]

\* the modification dicts given to the constructor
SysMods ==
    { NoMod,
      ModOf(<<[k |-> <<"layer", SEP, "nokey", SEP, "k">>, v |-> "v1"]>>),
      ModOf(<<[k |-> <<"layer", SEP, "nokey", SEP, "k">>, v |-> NoneVal],
              [k |-> <<"layer", SEP, "args", SEP, "new">>, v |-> "v1"]>>),
      ModOf(<<[k |-> <<"name", SEP, "x", SEP, "y">>, v |-> "v1"]>>),
      ModOf(<<[k |-> <<"layer", SEP, "type">>, v |-> "v1"]>>),
      ModOf(<<[k |-> <<"name">>, v |-> "v1"]>>) }

RunIds == {NoneVal, "", "r1"}

OptBs ==
    [flags |-> << <<DASH, "b">>, <<DASH, DASH, "batch", DASH, "size">> >>,
     target |-> <<"layer", SEP, "args", SEP, "new">>]

OptDepth ==
    [flags |-> << <<DASH, DASH, "depth">> >>,
     target |-> <<"layer", SEP, "nokey", SEP, "k">>]

OptShort ==
    [flags |-> << <<DASH, "n">> >>,
     target |-> <<"name">>]

\* the custom options of a command line and the values it gives them
CommandLines ==
    { [options |-> <<>>, values |-> <<>>],
      [options |-> <<OptBs, OptDepth>>, values |-> <<"v1", NoneVal>>],
      [options |-> <<OptBs, OptDepth>>, values |-> <<NoneVal, "v1">>],
      [options |-> <<OptShort>>, values |-> <<"v1">>] }

\* a fine-tuning configuration: some keys of a full one
DocTune ==
    MkTree({ <<<<"name">>, "exp2">>,
             <<<<"layer">>, MAP>>,
             <<<<"layer", "type">>, "Pool">>,
             <<<<"layer", "args">>, MAP>> })

ConfFiles == {"full.json", "tune.json"}

ConfNames == {NoneVal, "full.json", "tune.json"}

\* the checkpoints a caller can resume from: one next to each config.json
\* on disk, and one in a directory that holds none
ResumePaths(files) ==
    {Append(Parent(f), "ckpt.pth") : f \in {g \in DOMAIN files : g[Len(g)] = "config.json"}}
    \cup {<<"nowhere", "ckpt.pth">>}

\* the -d and -l flags of a command line
DeviceLogconf == {<<NoneVal, NoneVal>>, <<"0", "log.json">>}

Clis(files) ==
    {[device |-> dl[1], resume |-> r, conf |-> c, logconf |-> dl[2]] :
        dl \in DeviceLogconf, r \in {<<>>} \cup ResumePaths(files), c \in ConfNames}

\* the calls of from_args: custom options are given on command lines without
\* -d and -l
Invocations(files) ==
    {iv \in Clis(files) \X CommandLines :
        iv[2].options = <<>> \/ iv[1].device = NoneVal}

ItemNames == {"layer", "name", "nolayer"}

ArgLists == {<<>>, <<"x">>}

KwargSets == {EmptyTree, MkTree({<<<<"k">>, "5">>}), MkTree({<<<<"stride">>, "2">>})}

LoggerNames == {"train"}

Verbosities == {-1, 0, 1, 2, 3, 5}

---------------------------------------------------------------------------
(* The state machine *)

NoCli == [device |-> NoneVal, resume |-> <<>>, conf |-> NoneVal, logconf |-> NoneVal]

NoCtx ==
    [alive |-> FALSE, config |-> EmptyTree, resume |-> <<>>, save_dir |-> <<>>,
     log_dir |-> <<>>, persisted |-> <<>>]

NoLast ==
    [op |-> "none", err |-> "none", stage |-> "", base |-> EmptyTree, mod |-> NoMod,
     run_id |-> "", config |-> EmptyTree, doc |-> EmptyTree, save_dir |-> <<>>,
     cli |-> NoCli,
     name |-> "", verbosity |-> 0, args |-> <<>>, kwargs |-> EmptyTree,
     result |-> NoCall, text |-> <<>>, reads |-> {}]

Init ==
    /\ fsDirs = {}
    /\ fsFiles = [f \in {<<c>> : c \in ConfFiles} |->
                    IF f = <<"full.json">> THEN Dumps(DocFull, <<>>)
                                           ELSE Dumps(DocTune, <<>>)]
    /\ clock = 0
    /\ ctx = NoCtx
    /\ runs = <<>>
    /\ last = NoLast
    /\ loggers = [n \in LoggerNames |-> "NOTSET"]
    /\ calls = 0
    /\ partials = {}
    /\ cudaEnv = NoneVal
    /\ logSetup = {}
    /\ mBase = EmptyTree
    /\ mMod = NoMod
    /\ mOut = NoOut
    /\ mPc = "off"

\* the effects of a call of __init__ with result r
Constructed(r, resume) ==
    /\ fsDirs' = r.dirs
    /\ fsFiles' = r.files
    /\ logSetup' = IF r.setup
                   THEN logSetup \cup {[log_dir |-> r.log_dir, logconf |-> r.logconf]}
                   ELSE logSetup
    /\ ctx' = IF r.err = "none"
              THEN [alive |-> TRUE, config |-> r.tree, resume |-> resume,
                    save_dir |-> r.save_dir, log_dir |-> r.log_dir,
                    persisted |-> r.files[Append(r.save_dir, "config.json")]]
              ELSE ctx
    /\ runs' = Append(runs, [save_dir |-> r.save_dir, run_id |-> r.run_id, err |-> r.err])

\* ConfigParser(config, modification=modification, run_id=run_id)
New ==
    /\ Len(runs) < MaxRuns
    /\ \E config \in SysDocs, modification \in SysMods, run_id \in RunIds :
       \E r \in {ConfigParserInit(config, modification, run_id, fsDirs, fsFiles, clock)} :
             /\ Constructed(r, <<>>)
             /\ last' = [NoLast EXCEPT !.op = "init", !.err = r.err, !.stage = r.stage,
                                       !.base = config, !.config = config,
                                       !.mod = modification,
                                       !.run_id = run_id, !.doc = r.tree,
                                       !.save_dir = r.save_dir]
    /\ UNCHANGED <<clock, loggers, calls, partials, cudaEnv, mergeVars>>

\* ConfigParser.from_args(args, options)
FromArgs ==
    /\ Len(runs) < MaxRuns
    /\ \E iv \in Invocations(fsFiles) :
       \E cli \in {iv[1]}, cl \in {iv[2]} :
       \E a \in {FromArgsResolve(cli, cl.options, cl.values, fsDirs, fsFiles)} :
         LET l == [NoLast EXCEPT !.op = "from_args", !.cli = cli, !.base = a.base,
                                 !.config = a.config, !.mod = a.mod,
                                 !.run_id = NoneVal, !.reads = a.reads]
         IN  /\ cudaEnv' = IF cli.device # NoneVal THEN cli.device ELSE cudaEnv
             /\ IF a.err # "none"
                THEN /\ last' = [l EXCEPT !.err = a.err, !.stage = a.stage]
                     /\ runs' = Append(runs, [save_dir |-> <<>>, run_id |-> "",
                                              err |-> a.err])
                     /\ UNCHANGED <<fsDirs, fsFiles, logSetup, ctx>>
                ELSE \E r \in {ConfigParserInit(a.config, a.mod, NoneVal,
                                                fsDirs, fsFiles, clock)} :
                     /\ Constructed(r, a.resume)
                     /\ last' = [l EXCEPT !.err = r.err, !.stage = r.stage,
                                          !.doc = r.tree, !.save_dir = r.save_dir]
    /\ UNCHANGED <<clock, loggers, calls, partials, mergeVars>>

\* config.init_obj(name, module, *args, **kwargs)
InitObj ==
    /\ ctx.alive
    /\ calls < MaxCalls
    /\ \E name \in ItemNames, args \in ArgLists, kwargs \in KwargSets :
       \E r \in {Instantiate(ctx.config, name, args, kwargs)} :
         LET c == [attr |-> r.attr, args |-> r.args, kwargs |-> r.kwargs]
         IN  /\ ctx' = [ctx EXCEPT !.config = r.config]
             /\ calls' = IF r.err = "none" THEN calls + 1 ELSE calls
             /\ last' = [NoLast EXCEPT !.op = "init_obj", !.err = r.err, !.name = name,
                                       !.args = args, !.kwargs = kwargs,
                                       !.result = IF r.err = "none" THEN c ELSE NoCall]
    /\ UNCHANGED <<fsDirs, fsFiles, clock, runs, loggers, partials, cudaEnv,
                   logSetup, mergeVars>>

\* config.init_ftn(name, module, *args, **kwargs)
InitFtn ==
    /\ ctx.alive
    /\ Cardinality(partials) < MaxPartials
    /\ \E name \in ItemNames, args \in ArgLists, kwargs \in KwargSets :
       \E r \in {Instantiate(ctx.config, name, args, kwargs)} :
         LET c == [attr |-> r.attr, args |-> r.args, kwargs |-> r.kwargs]
         IN  /\ ctx' = [ctx EXCEPT !.config = r.config]
             /\ partials' = IF r.err = "none" THEN partials \cup {c} ELSE partials
             /\ last' = [NoLast EXCEPT !.op = "init_ftn", !.err = r.err, !.name = name,
                                       !.args = args, !.kwargs = kwargs,
                                       !.result = IF r.err = "none" THEN c ELSE NoCall]
    /\ UNCHANGED <<fsDirs, fsFiles, clock, runs, loggers, calls, cudaEnv,
                   logSetup, mergeVars>>

\* calling a function init_ftn returned
CallPartial ==
    /\ calls < MaxCalls
    /\ \E p \in partials, more \in ArgLists, morekw \in KwargSets :
       \E c \in {PartialCall(p, more, morekw)} :
             /\ calls' = calls + 1
             /\ last' = [NoLast EXCEPT !.op = "partial", !.args = more,
                                       !.kwargs = morekw, !.result = c]
    /\ UNCHANGED <<fsDirs, fsFiles, clock, ctx, runs, loggers, partials, cudaEnv,
                   logSetup, mergeVars>>

\* config[name]
GetItem ==
    /\ ctx.alive
    /\ \E name \in ItemNames :
         LET r == GetItemAt(ctx.config, <<>>, name)
         IN  last' = [NoLast EXCEPT !.op = "getitem", !.err = r.err, !.name = name,
                                    !.text = IF r.err = "none"
                                             THEN <<ctx.config[r.at]>> ELSE <<>>,
                                    !.doc = IF r.err = "none"
                                            THEN Subtree(ctx.config, r.at)
                                            ELSE EmptyTree]
    /\ UNCHANGED <<fsDirs, fsFiles, clock, ctx, runs, loggers, calls, partials,
                   cudaEnv, logSetup, mergeVars>>

\* str(config)
Str ==
    /\ ctx.alive
    /\ last' = [NoLast EXCEPT !.op = "str", !.text = Dumps(ctx.config, <<>>)]
    /\ UNCHANGED <<fsDirs, fsFiles, clock, ctx, runs, loggers, calls, partials,
                   cudaEnv, logSetup, mergeVars>>

\* config.get_logger(name, verbosity)
GetLogger ==
    /\ ctx.alive
    /\ \E name \in LoggerNames, verbosity \in Verbosities :
       \E r \in {GetLoggerResolve(loggers, name, verbosity)} :
             /\ loggers' = r.levels
             /\ last' = [NoLast EXCEPT !.op = "get_logger", !.err = r.err,
                                       !.name = name, !.verbosity = verbosity]
    /\ UNCHANGED <<fsDirs, fsFiles, clock, ctx, runs, calls, partials, cudaEnv,
                   logSetup, mergeVars>>

\* a second passes
Tick ==
    /\ clock < MaxClock
    /\ Len(runs) < MaxRuns
    /\ clock' = clock + 1
    /\ UNCHANGED <<fsDirs, fsFiles, ctx, runs, last, loggers, calls, partials,
                   cudaEnv, logSetup, mergeVars>>

\* constructions, one after another
NextBuild ==
    \/ New
    \/ FromArgs
    \/ Tick

SpecBuild == Init /\ [][NextBuild]_vars

\* one construction, and then any use of the object
NextUse ==
    \/ (runs = <<>> /\ New)
    \/ InitObj
    \/ InitFtn
    \/ CallPartial
    \/ GetItem
    \/ Str
    \/ GetLogger

SpecUse == Init /\ [][NextUse]_vars

Next == NextBuild \/ NextUse

Spec == Init /\ [][Next]_vars

\* _update_config applied once to each document and modification dict
InitMerge ==
    /\ fsDirs = {}
    /\ fsFiles = <<>>
    /\ clock = 0
    /\ ctx = NoCtx
    /\ runs = <<>>
    /\ last = NoLast
    /\ loggers = [n \in LoggerNames |-> "NOTSET"]
    /\ calls = 0
    /\ partials = {}
    /\ cudaEnv = NoneVal
    /\ logSetup = {}
    /\ MergeInit

NextMerge == RunUpdateConfig /\ UNCHANGED sysVars

SpecMerge == InitMerge /\ [][NextMerge]_vars

---------------------------------------------------------------------------
(* Claims about _update_config (SpecMerge) *)

\* the entries of a modification dict that carry a value
Live(mod) == {i \in 1..Len(mod.items) : mod.items[i].v # NoneVal}

KeysOf(mod, i) == Split(mod.items[i].k)

Related(p, q) == IsPrefix(p, q) \/ IsPrefix(q, p)

\* every key of the path but the last exists in the document
IntermediatesExist(tree, ks) ==
    \A n \in 1..(Len(ks) - 1) : SubSeq(ks, 1, n) \in DOMAIN tree

\* every key of the path but the last exists and holds a dict
IntermediatesAreMaps(tree, ks) ==
    \A n \in 1..(Len(ks) - 1) : IsMapAt(tree, SubSeq(ks, 1, n))

\* documents a and b hold the same at path p and below it
SameAt(a, b, p) ==
    \A q \in DOMAIN a \cup DOMAIN b :
        IsPrefix(p, q) => (q \in DOMAIN a /\ q \in DOMAIN b /\ a[q] = b[q])

\* C1 as stated: whenever the modification dict holds a value v at a path
\* whose intermediate keys all exist in the base document, the merged
\* document holds v at that path and every key that is not on the path keeps
\* the value it had
C1_AsStated ==
    mPc = "done" =>
      \A i \in Live(mMod) :
        LET ks == KeysOf(mMod, i)
        IN  IntermediatesExist(mBase, ks) =>
              /\ mOut.err = "none"
              /\ ks \in DOMAIN mOut.tree
              /\ mOut.tree[ks] = mMod.items[i].v
              /\ \A q \in DOMAIN mBase :
                   ~Related(q, ks) => (q \in DOMAIN mOut.tree /\ mOut.tree[q] = mBase[q])
              /\ DOMAIN mOut.tree \subseteq DOMAIN mBase \cup {ks}

\* the modification dicts C1 holds for: every value's path leads through
\* dicts of the base document, and no value's path is a prefix of another's
C1_Pre ==
    /\ ~mMod.isNone
    /\ \A i \in Live(mMod) : IntermediatesAreMaps(mBase, KeysOf(mMod, i))
    /\ \A i, j \in Live(mMod) : i # j => ~Related(KeysOf(mMod, i), KeysOf(mMod, j))

\* C1, amended: for such a modification dict the merge succeeds, the merged
\* document holds every value at its path (created or overwritten), and every
\* key that is not on or below one of these paths keeps the value it had in
\* the base document, no other key being created
C1_PathSetFrame ==
    (mPc = "done" /\ C1_Pre) =>
      /\ mOut.err = "none"
      /\ \A i \in Live(mMod) :
           /\ KeysOf(mMod, i) \in DOMAIN mOut.tree
           /\ mOut.tree[KeysOf(mMod, i)] = mMod.items[i].v
      /\ \A q \in DOMAIN mBase :
           (\A i \in Live(mMod) : ~Related(q, KeysOf(mMod, i)))
             => (q \in DOMAIN mOut.tree /\ mOut.tree[q] = mBase[q])
      /\ \A q \in DOMAIN mBase :
           (\E i \in Live(mMod) : IsPrefix(q, KeysOf(mMod, i)) /\ q # KeysOf(mMod, i))
             => (q \in DOMAIN mOut.tree /\ mOut.tree[q] = MAP)
      /\ DOMAIN mOut.tree \subseteq
           DOMAIN mBase \cup {KeysOf(mMod, i) : i \in Live(mMod)}

\* a merge that creates a key next to one that stays, and overwrites another
C1_Witness ==
    /\ mPc = "done"
    /\ C1_Pre
    /\ mBase = DocFull
    /\ Len(mMod.items) = 2
    /\ \A i \in 1..2 : mMod.items[i].v = "v1"
    /\ mMod.items[1].k = <<"layer", SEP, "args", SEP, "new">>
    /\ mMod.items[2].k = <<"name">>
    /\ mOut.tree[<<"layer", "args", "new">>] = "v1"
    /\ mOut.tree[<<"layer", "args", "k">>] = "3"
    /\ mOut.tree[<<"name">>] = "v1"

\* C2 as stated: the merged document is unchanged at the path of every entry
\* whose value is None, and a modification of None changes nothing
C2_AsStated ==
    mPc = "done" =>
      /\ mMod.isNone => (mOut.err = "none" /\ mOut.tree = mBase)
      /\ \A i \in 1..Len(mMod.items) :
           mMod.items[i].v = NoneVal => SameAt(mBase, mOut.tree, KeysOf(mMod, i))

\* the modification dict without its None entries
WithoutNone(mod) ==
    [mod EXCEPT !.items = SelectSeq(mod.items, LAMBDA e : e.v # NoneVal)]

\* C2, amended: an entry whose value is None is skipped: the merge does what
\* it does without the entry, so the document is unchanged at the entry's
\* path unless an entry with a value writes at that path, above it or below
\* it; a dict of None entries only, and a modification of None, leave the
\* whole document unchanged and raise nothing
C2_NoneSkipped ==
    mPc = "done" =>
      /\ mMod.isNone => (mOut.err = "none" /\ mOut.tree = mBase)
      /\ Live(mMod) = {} => (mOut.err = "none" /\ mOut.tree = mBase)
      /\ mOut = UpdateConfig(mBase, WithoutNone(mMod))
      /\ \A i \in 1..Len(mMod.items) :
           (/\ mMod.items[i].v = NoneVal
            /\ \A j \in Live(mMod) : ~Related(KeysOf(mMod, i), KeysOf(mMod, j)))
             => SameAt(mBase, mOut.tree, KeysOf(mMod, i))

\* a None entry whose path does not exist, next to an entry that is applied
C2_Witness ==
    /\ mPc = "done"
    /\ mBase = DocFull
    /\ Len(mMod.items) = 2
    /\ mMod.items[1] = [k |-> <<"layer", SEP, "nokey", SEP, "k">>, v |-> NoneVal]
    /\ mMod.items[2] = [k |-> <<"layer", SEP, "args", SEP, "k">>, v |-> "v1"]
    /\ mOut.err = "none"
    /\ mOut.tree[<<"layer", "args", "k">>] = "v1"
    /\ <<"layer", "nokey">> \notin DOMAIN mOut.tree

---------------------------------------------------------------------------
(* Claims about construction (SpecBuild) *)

\* the stages of __init__; a from_args that stops earlier never calls it
CtorStages ==
    {"merge", "save_dir", "name", "mkdir_save", "mkdir_log", "write_json",
     "logconf", "done"}

DirStages == {"mkdir_save", "mkdir_log", "write_json", "logconf", "done"}

\* this step is a call of the constructor, directly or from from_args
CtorStep == runs' # runs /\ last'.stage \in CtorStages

\* the longest run of leading keys of the path that exists in the document
Reached(tree, ks) ==
    LET ns == {n \in 0..(Len(ks) - 1) : \A m \in 1..n : SubSeq(ks, 1, m) \in DOMAIN tree}
    IN  SubSeq(ks, 1, CHOOSE n \in ns : \A m \in ns : m <= n)

NothingOnDisk == fsDirs' = fsDirs /\ fsFiles' = fsFiles

\* C3 as stated: a value at a path with a missing intermediate key makes the
\* construction fail with a key-not-found failure before anything is created
\* on disk; a missing last key is created
C3_AsStated ==
    [][CtorStep =>
         \A i \in Live(last'.mod) :
            LET ks == KeysOf(last'.mod, i)
            IN  /\ ~IntermediatesExist(last'.config, ks)
                     => (last'.err = "KeyError" /\ NothingOnDisk)
                /\ (IntermediatesExist(last'.config, ks) /\ ks \notin DOMAIN last'.config)
                     => (last'.stage # "merge" /\ ks \in DOMAIN last'.doc)]_vars

\* C3, amended: a value at a path with a missing intermediate key makes the
\* construction fail in the merge, before any directory is created and before
\* config.json is written, with a key-not-found failure when the value
\* reached before the missing key is a dict and with a TypeError when it is a
\* scalar; a missing last key below existing dicts is not an error and is
\* created
C3_MergeFailsFirst ==
    [][CtorStep =>
         /\ (\E i \in Live(last'.mod) :
                ~IntermediatesExist(last'.config, KeysOf(last'.mod, i)))
              => /\ last'.stage = "merge"
                 /\ last'.err \in {"KeyError", "TypeError"}
                 /\ NothingOnDisk
                 /\ ctx' = ctx
                 /\ logSetup' = logSetup
         /\ \A i \in Live(last'.mod) :
              LET ks == KeysOf(last'.mod, i)
              IN  /\ (Live(last'.mod) = {i} /\ ~IntermediatesExist(last'.config, ks))
                       => (last'.err = "KeyError"
                             <=> IsMapAt(last'.config, Reached(last'.config, ks)))
                  /\ (Live(last'.mod) = {i} /\ IntermediatesAreMaps(last'.config, ks))
                       => /\ last'.stage # "merge"
                          /\ ks \in DOMAIN last'.doc
                          /\ last'.doc[ks] = last'.mod.items[i].v]_vars

\* a construction that the merge stops, after one that left a run on disk
C3_Witness ==
    /\ Len(runs) = 2
    /\ runs[1].err = "none"
    /\ last.op = "init"
    /\ last.stage = "merge"
    /\ last.err = "KeyError"
    /\ last.mod.items = <<[k |-> <<"layer", SEP, "nokey", SEP, "k">>, v |-> "v1"]>>
    /\ Cardinality({f \in DOMAIN fsFiles : f[Len(f)] = "config.json"}) = 1

\* the directories of a run
RunDir(kind, doc, rid) ==
    JoinPath(<<doc[SAVE_DIR_KEYS], kind, doc[<<"name">>]>>, rid)

\* C7: constructing with the document {name, machine: {args: {save_dir}}} and
\* a run identifier completes, leaves both directories on disk, and leaves a
\* config.json that parses to the merged document
C7_AsStated ==
    [][(/\ CtorStep
        /\ last'.op = "init"
        /\ last'.base = DocExample
        /\ last'.run_id = "r1"
        /\ Live(last'.mod) = {}
        /\ RunDir("models", DocExample, "r1") \notin fsDirs)
         => /\ last'.err = "none"
            /\ ctx'.alive
            /\ ctx'.config = DocExample
            /\ RunDir("models", DocExample, "r1") \in fsDirs'
            /\ RunDir("log", DocExample, "r1") \in fsDirs'
            /\ Append(RunDir("models", DocExample, "r1"), "config.json") \in DOMAIN fsFiles'
            /\ Loads(fsFiles'[Append(RunDir("models", DocExample, "r1"), "config.json")])
                 = DocExample]_vars

\* the run identifier a construction uses
RunIdOf(l, now) == IF l.run_id = NoneVal THEN Strftime(now) ELSE l.run_id

\* C8: with the empty run identifier the directories are made however often
\* the construction is repeated; with any other run identifier (a default
\* time stamp too) a construction whose save_dir an earlier run has made
\* fails at the first mkdir, before config.json is written, so no two
\* constructions that complete with a non-empty run identifier share a
\* save_dir
C8_MkdirOnlyOnceUnlessEmpty ==
    [][(CtorStep /\ last'.stage \in DirStages) =>
         LET rid == RunIdOf(last', clock)
             sd == RunDir("models", last'.doc, rid)
             ld == RunDir("log", last'.doc, rid)
         IN  /\ rid = ""
                  => /\ last'.stage \notin {"mkdir_save", "mkdir_log"}
                     /\ sd \in fsDirs' /\ ld \in fsDirs'
                     /\ <<"logconf">> \in DOMAIN last'.doc => last'.err = "none"
             /\ (rid # "" /\ sd \in fsDirs)
                  => /\ last'.stage = "mkdir_save"
                     /\ last'.err = "FileExistsError"
                     /\ NothingOnDisk
                     /\ ctx' = ctx
             /\ (rid # "" /\ last'.err = "none")
                  => /\ sd \notin fsDirs
                     /\ runs'[Len(runs')].save_dir = sd
                     /\ \A k \in 1..Len(runs) : runs[k].save_dir # sd]_vars

\* a run identifier used twice: the second construction fails and the first
\* run's config.json stays
C8_Witness ==
    /\ Len(runs) = 2
    /\ runs[1].err = "none"
    /\ runs[1].run_id # ""
    /\ runs[2].run_id = runs[1].run_id
    /\ runs[2].save_dir = runs[1].save_dir
    /\ runs[2].err = "FileExistsError"
    /\ last.stage = "mkdir_save"
    /\ fsFiles[Append(runs[1].save_dir, "config.json")] = ctx.persisted

TopKeys(tree) == KeysAt(tree, <<>>)

\* documents a and b hold the same value under the top-level key k
SameKey(a, b, k) == SameAt(a, b, <<k>>)

\* this step is a call of from_args
ArgsStep == runs' # runs /\ last'.op = "from_args"

\* C9: with a resume path the base document is config.json next to the
\* checkpoint, every top-level key of a -c file given as well replacing the
\* resumed key and the other resumed keys staying; without one it is the -c
\* file; with neither, from_args fails on its assertion before it reads a file
\* or touches the disk.  The constructor gets the base document with its
\* logconf key set from the -l flag
C9_BaseDocument ==
    [][ArgsStep =>
         LET c == last'.cli
             cfg == Append(Parent(c.resume), "config.json")
             read == last'.stage \notin {"assert_conf", "read_json", "read_conf"}
         IN  /\ (c.resume = <<>> /\ c.conf = NoneVal)
                  => /\ last'.err = "AssertionError"
                     /\ last'.reads = {}
                     /\ NothingOnDisk
                     /\ ctx' = ctx
             /\ (c.resume = <<>> /\ c.conf # NoneVal)
                  => /\ read
                     /\ last'.reads = {<<c.conf>>}
                     /\ last'.base = Loads(fsFiles[<<c.conf>>])
             /\ (c.resume # <<>> /\ cfg \notin DOMAIN fsFiles)
                  => (last'.err = "FileNotFoundError" /\ NothingOnDisk)
             /\ (c.resume # <<>> /\ cfg \in DOMAIN fsFiles)
                  => /\ read
                     /\ cfg \in last'.reads
                     /\ c.conf = NoneVal => last'.base = Loads(fsFiles[cfg])
                     /\ c.conf # NoneVal =>
                          \A resumed \in {Loads(fsFiles[cfg])},
                             over \in {Loads(fsFiles[<<c.conf>>])} :
                              /\ TopKeys(last'.base) = TopKeys(resumed) \cup TopKeys(over)
                              /\ \A k \in TopKeys(over) : SameKey(last'.base, over, k)
                              /\ \A k \in TopKeys(resumed) \ TopKeys(over) :
                                   SameKey(last'.base, resumed, k)
             /\ read
                  => /\ \A k \in TopKeys(last'.base) \ {"logconf"} :
                          SameKey(last'.config, last'.base, k)
                     /\ last'.config[<<"logconf">>] =
                          (IF c.logconf = NoneVal THEN "" ELSE c.logconf)]_vars

\* a run resumed with a fine-tuning file laid over its config.json
C9_Witness ==
    /\ last.op = "from_args"
    /\ last.err = "none"
    /\ last.cli.resume # <<>>
    /\ last.cli.conf = "tune.json"
    /\ last.base[<<"name">>] = "exp2"
    /\ last.base[<<"layer", "type">>] = "Pool"
    /\ <<"layer", "args", "k">> \notin DOMAIN last.base
    /\ last.base[<<"machine", "args", "save_dir">>] = "/tmp/out"
    /\ ctx.config = last.config

---------------------------------------------------------------------------
(* Claims about the use of a constructed object (SpecUse) *)

InstStep == last'.op \in {"init_obj", "init_ftn"}

\* the config key holds {type, args}, args being a dict
Configured(config, name) ==
    /\ <<name, "type">> \in DOMAIN config
    /\ IsMapAt(config, <<name, "args">>)

Collides(config, name, kwargs) ==
    \E k \in TopKeys(kwargs) : <<name, "args", k>> \in DOMAIN config

\* C4: init_obj and init_ftn fail on their assertion when a keyword argument
\* of the caller is a key of the configured args: nothing is called, nothing
\* is bound, and the configured value stays; when no name collides the
\* assertion does not fail
C4_CollisionAsserts ==
    [][(InstStep /\ ctx.alive /\ Configured(ctx.config, last'.name)) =>
         IF Collides(ctx.config, last'.name, last'.kwargs)
         THEN /\ last'.err = "AssertionError"
              /\ calls' = calls
              /\ partials' = partials
              /\ last'.result = NoCall
              /\ ctx'.config = ctx.config
         ELSE last'.err # "AssertionError"]_vars

\* init_obj("layer", module, k="5") on a config whose layer args hold k
C4_Witness ==
    /\ last.op = "init_obj"
    /\ last.name = "layer"
    /\ last.kwargs = MkTree({<<<<"k">>, "5">>})
    /\ last.err = "AssertionError"
    /\ ctx.config[<<"layer", "args", "k">>] = "3"
    /\ calls = 0

\* the keyword arguments of a call are the configured args and the caller's
UnionOf(kw, config, name, kwargs) ==
    /\ DOMAIN kw = DOMAIN Subtree(config, <<name, "args">>) \cup DOMAIN kwargs
    /\ \A q \in DOMAIN kwargs : kw[q] = kwargs[q]
    /\ \A q \in DOMAIN Subtree(config, <<name, "args">>) :
         kw[q] = config[<<name, "args">> \o q]

\* C5: for a config key holding {type, args}, type naming an attribute of the
\* module, and keyword arguments that do not collide, init_obj calls that
\* attribute once with the caller's positional arguments and the union of the
\* configured args and the caller's keyword arguments, and returns the result;
\* init_ftn calls nothing and returns a function that, when called, calls
\* that attribute with these arguments first, the keyword arguments given at
\* that call added
C5_CallsConfiguredType ==
    [][/\ (/\ InstStep /\ ctx.alive
           /\ Configured(ctx.config, last'.name)
           /\ ctx.config[<<last'.name, "type">>] \in ModuleAttrs
           /\ ~Collides(ctx.config, last'.name, last'.kwargs))
            => /\ last'.err = "none"
               /\ last'.result.attr = ctx.config[<<last'.name, "type">>]
               /\ last'.result.args = last'.args
               /\ UnionOf(last'.result.kwargs, ctx.config, last'.name, last'.kwargs)
               /\ last'.op = "init_obj" => (calls' = calls + 1 /\ partials' = partials)
               /\ last'.op = "init_ftn"
                    => (calls' = calls /\ partials' = partials \cup {last'.result})
       /\ last'.op = "partial"
            => /\ calls' = calls + 1
               /\ \E p \in partials :
                    /\ last'.result.attr = p.attr
                    /\ last'.result.args = p.args \o last'.args
                    /\ DOMAIN last'.result.kwargs = DOMAIN p.kwargs \cup DOMAIN last'.kwargs
                    /\ \A q \in DOMAIN last'.kwargs : last'.result.kwargs[q] = last'.kwargs[q]
                    /\ \A q \in DOMAIN p.kwargs \ DOMAIN last'.kwargs :
                         last'.result.kwargs[q] = p.kwargs[q]]_vars

\* module.Conv("x", k="3", stride="2") through a function init_ftn returned
C5_Witness ==
    /\ last.op = "partial"
    /\ calls = 1
    /\ last.result.attr = "Conv"
    /\ last.result.args = <<"x">>
    /\ last.result.kwargs = MkTree({<<<<"k">>, "3">>, <<<<"stride">>, "2">>})
    /\ \E p \in partials : p.kwargs = last.result.kwargs /\ p.args = <<"x">>

\* C6: get_logger succeeds exactly for the verbosities 0, 1 and 2, setting the
\* logger's level to WARNING, INFO and DEBUG; for any other verbosity it fails
\* on its assertion and the logger's level stays
C6_VerbosityChecked ==
    [][last'.op = "get_logger" =>
         LET v == last'.verbosity
             n == last'.name
         IN  /\ last'.err = "none" <=> v \in {0, 1, 2}
             /\ v = 0 => loggers'[n] = "WARNING"
             /\ v = 1 => loggers'[n] = "INFO"
             /\ v = 2 => loggers'[n] = "DEBUG"
             /\ v \notin {0, 1, 2}
                  => (last'.err = "AssertionError" /\ loggers' = loggers)
             /\ \A m \in LoggerNames \ {n} : loggers'[m] = loggers[m]]_vars

\* get_logger(name, 5) on a logger set to INFO before
C6_Witness ==
    /\ last.op = "get_logger"
    /\ last.verbosity = 5
    /\ last.err = "AssertionError"
    /\ loggers[last.name] = "INFO"

\* C10: once constructed, the document of the object is the one written to
\* config.json, whatever item lookups, init_obj, init_ftn, str and get_logger
\* calls follow; an init_obj call that succeeded succeeds again with the same
\* result when it is repeated
C10_DocumentReadOnly ==
    [][/\ (ctx'.alive /\ ctx' # ctx) => ctx'.config = Loads(ctx'.persisted)
       /\ ctx'.alive => fsFiles'[Append(ctx'.save_dir, "config.json")] = ctx'.persisted
       /\ ctx.alive => ctx' = ctx
       /\ (/\ last.op = "init_obj" /\ last.err = "none" /\ last'.op = "init_obj"
           /\ last'.name = last.name /\ last'.args = last.args
           /\ last'.kwargs = last.kwargs)
            => (last'.err = "none" /\ last'.result = last.result)]_vars

\* init_obj("layer", module, stride="2") made twice
C10_Witness ==
    /\ ctx.alive
    /\ calls = 2
    /\ last.op = "init_obj"
    /\ last.err = "none"
    /\ last.kwargs = MkTree({<<<<"stride">>, "2">>})
    /\ last.result.kwargs[<<"stride">>] = "2"
    /\ <<"layer", "args", "stride">> \notin DOMAIN ctx.config
    /\ ctx.config = Loads(fsFiles[Append(ctx.save_dir, "config.json")])

====
